---- MODULE Spec2Model ----
(***************************************************************************)
(* Model of the ignore-pattern engine of zrt (src/core/ignore/patterns.rs):*)
(* Patterns::add_pattern compiles one directive line into glob rules,      *)
(* Patterns::matches evaluates a path against the stored rules.            *)
(*                                                                         *)
(* Strings are sequences of one-character strings, so that trimming,       *)
(* prefix stripping, splitting, replacing and glob tokenising are computed *)
(* character by character as the Rust code and the glob crate compute them.*)
(***************************************************************************)
EXTENDS Integers, Sequences, FiniteSets, TLC

(***************************************************************************)
(* String helpers (Rust str methods used by add_pattern and matches).      *)
(***************************************************************************)

\* char::is_whitespace, restricted to the blanks a directive line can hold
IsWhitespace(c) == c \in {" ", "\t", "\n", "\r"}

\* s[from..=to] (1-based, inclusive); empty when from > to
Slice(s, from, to) == IF from > to THEN <<>> ELSE SubSeq(s, from, to)

RECURSIVE TrimStart(_)
TrimStart(s) ==
    IF s # <<>> /\ IsWhitespace(Head(s)) THEN TrimStart(Tail(s)) ELSE s

RECURSIVE TrimEnd(_)
TrimEnd(s) ==
    IF s # <<>> /\ IsWhitespace(s[Len(s)])
    THEN TrimEnd(SubSeq(s, 1, Len(s) - 1))
    ELSE s

\* trim that leaves the line as it is
TrimNothing(s) == s

\* str::trim
Trim(s) == TrimEnd(TrimStart(s))

\* str::starts_with(char)
StartsWithChar(s, c) == s # <<>> /\ s[1] = c

\* str::ends_with(char)
EndsWithChar(s, c) == s # <<>> /\ s[Len(s)] = c

\* str::contains(char)
ContainsChar(s, c) == \E i \in 1..Len(s) : s[i] = c

\* needle occurs in s at position i
OccursAt(s, needle, i) ==
    /\ i + Len(needle) - 1 <= Len(s)
    /\ \A k \in 1..Len(needle) : s[i + k - 1] = needle[k]

\* str::contains(&str)
ContainsStr(s, needle) == \E i \in 1..Len(s) : OccursAt(s, needle, i)

\* str::replace(from, to): non-overlapping occurrences, left to right
RECURSIVE Replace(_, _, _)
Replace(s, from, to) ==
    IF s = <<>> THEN <<>>
    ELSE IF OccursAt(s, from, 1)
         THEN to \o Replace(Slice(s, Len(from) + 1, Len(s)), from, to)
         ELSE <<Head(s)>> \o Replace(Tail(s), from, to)

\* index of the first occurrence of c in s, 0 when there is none
FirstIndex(s, c) ==
    IF ContainsChar(s, c)
    THEN CHOOSE i \in 1..Len(s) : s[i] = c /\ \A k \in 1..(i - 1) : s[k] # c
    ELSE 0

\* str::split_once(char): None, or the text before and after the first c
SplitOnce(s, c) ==
    LET i == FirstIndex(s, c) IN
    IF i = 0 THEN [some |-> FALSE, before |-> <<>>, after |-> <<>>]
    ELSE [some   |-> TRUE,
          before |-> Slice(s, 1, i - 1),
          after  |-> Slice(s, i + 1, Len(s))]

\* str::split(char): the pieces between the separators, empty pieces kept
RECURSIVE Split(_, _)
Split(s, c) ==
    LET i == FirstIndex(s, c) IN
    IF i = 0 THEN <<s>>
    ELSE <<Slice(s, 1, i - 1)>> \o Split(Slice(s, i + 1, Len(s)), c)

(***************************************************************************)
(* The glob crate: Pattern::new (tokeniser) and Pattern::matches, as the   *)
(* calls in patterns.rs use them (MatchOptions::new(): case sensitive, no  *)
(* literal-separator and no leading-dot requirement; Unix separators).     *)
(***************************************************************************)

\* std::path::is_separator on Unix
IsSeparator(c) == c = "/"

\* Printable ASCII in code-point order (without the backquote), for the
\* character ranges of [...]
Ascii ==
    << " ", "!", "\"", "#", "$", "%", "&", "'", "(", ")", "*", "+", ",", "-",
       ".", "/", "0", "1", "2", "3", "4", "5", "6", "7", "8", "9", ":", ";",
       "<", "=", ">", "?", "@", "A", "B", "C", "D", "E", "F", "G", "H", "I",
       "J", "K", "L", "M", "N", "O", "P", "Q", "R", "S", "T", "U", "V", "W",
       "X", "Y", "Z", "[", "\\", "]", "^", "_", "a", "b", "c", "d", "e",
       "f", "g", "h", "i", "j", "k", "l", "m", "n", "o", "p", "q", "r", "s",
       "t", "u", "v", "w", "x", "y", "z", "{", "|", "}", "~" >>

\* position of c in Ascii: orders characters as their code points do
Ord(c) == CHOOSE i \in 1..Len(Ascii) : Ascii[i] = c

\* Tokens of a compiled pattern
TChar(c)       == [t |-> "Char", c |-> c, cs |-> <<>>]
TAnyChar       == [t |-> "AnyChar", c |-> "", cs |-> <<>>]
TAnySequence   == [t |-> "AnySequence", c |-> "", cs |-> <<>>]
TAnyRecursive  == [t |-> "AnyRecursiveSequence", c |-> "", cs |-> <<>>]
TAnyWithin(cs) == [t |-> "AnyWithin", c |-> "", cs |-> cs]
TAnyExcept(cs) == [t |-> "AnyExcept", c |-> "", cs |-> cs]

\* parse_char_specifiers: `a-z` is a range <<a, z>>, any other char a single
RECURSIVE ParseCharSpecifiers(_)
ParseCharSpecifiers(s) ==
    IF s = <<>> THEN <<>>
    ELSE IF Len(s) >= 3 /\ s[2] = "-"
         THEN <<(<<s[1], s[3]>>)>> \o ParseCharSpecifiers(Slice(s, 4, Len(s)))
         ELSE <<(<<s[1], s[1]>>)>> \o ParseCharSpecifiers(Tail(s))

\* in_char_specifiers, case sensitive
InCharSpecifiers(cs, c) ==
    \E k \in 1..Len(cs) :
        IF cs[k][1] = cs[k][2] THEN c = cs[k][1]
        ELSE Ord(cs[k][1]) <= Ord(c) /\ Ord(c) <= Ord(cs[k][2])

\* number of consecutive `*` starting at position p
RECURSIVE StarRun(_, _)
StarRun(chars, p) ==
    IF p <= Len(chars) /\ chars[p] = "*" THEN 1 + StarRun(chars, p + 1) ELSE 0

\* first position q >= from with chars[q] = "]", 0 when there is none
ClosingBracket(chars, from) ==
    IF \E q \in from..Len(chars) : chars[q] = "]"
    THEN CHOOSE q \in from..Len(chars) :
            chars[q] = "]" /\ \A k \in from..(q - 1) : chars[k] # "]"
    ELSE 0

PatternError == [ok |-> FALSE, original |-> <<>>, tokens |-> <<>>]

\* the main loop of Pattern::new from position p, tokens pushed so far
RECURSIVE Tokenize(_, _, _)
Tokenize(chars, p, tokens) ==
    IF p > Len(chars) THEN [ok |-> TRUE, original |-> chars, tokens |-> tokens]
    ELSE IF chars[p] = "?" THEN Tokenize(chars, p + 1, Append(tokens, TAnyChar))
    ELSE IF chars[p] = "*" THEN
        LET count == StarRun(chars, p)
            after == p + count
        IN  IF count > 2 THEN PatternError
            ELSE IF count = 2 THEN
                IF p = 1 \/ IsSeparator(chars[p - 1])
                THEN IF after <= Len(chars) /\ ~IsSeparator(chars[after])
                     THEN PatternError
                     ELSE LET next == IF after <= Len(chars) THEN after + 1 ELSE after
                              collapse == Len(tokens) > 1
                                          /\ tokens[Len(tokens)] = TAnyRecursive
                          IN  Tokenize(chars, next,
                                       IF collapse THEN tokens
                                       ELSE Append(tokens, TAnyRecursive))
                ELSE PatternError
            ELSE Tokenize(chars, after, Append(tokens, TAnySequence))
    ELSE IF chars[p] = "[" THEN
        IF p + 3 <= Len(chars) /\ chars[p + 1] = "!" THEN
            LET q == ClosingBracket(chars, p + 3) IN
            IF q = 0 THEN PatternError
            ELSE Tokenize(chars, q + 1,
                    Append(tokens,
                           TAnyExcept(ParseCharSpecifiers(Slice(chars, p + 2, q - 1)))))
        ELSE IF p + 2 <= Len(chars) /\ chars[p + 1] # "!" THEN
            LET q == ClosingBracket(chars, p + 2) IN
            IF q = 0 THEN PatternError
            ELSE Tokenize(chars, q + 1,
                    Append(tokens,
                           TAnyWithin(ParseCharSpecifiers(Slice(chars, p + 1, q - 1)))))
        ELSE PatternError
    ELSE Tokenize(chars, p + 1, Append(tokens, TChar(chars[p])))

\* Pattern::new reading the recursive wildcard `**/` as a plain `*`
PatternNewGlobstarAsStar(s) ==
    Tokenize(Replace(s, <<"*", "*", "/">>, <<"*">>), 1, <<>>)

\* glob::Pattern::new: Err, or the compiled pattern (source text and tokens)
PatternNew(s) == Tokenize(s, 1, <<>>)

\* a single-character token against the character c
TokenMatchesChar(tok, c) ==
    CASE tok.t = "AnyChar"   -> TRUE
      [] tok.t = "AnyWithin" -> InCharSpecifiers(tok.cs, c)
      [] tok.t = "AnyExcept" -> ~InCharSpecifiers(tok.cs, c)
      [] OTHER               -> c = tok.c

IsSequenceToken(tok) == tok.t \in {"AnySequence", "AnyRecursiveSequence"}

\* Pattern::matches_from: tokens[i..] against file[j..]. The result is one of
\* "Match", "SubPatternDoesntMatch", "EntirePatternDoesntMatch".
\* SequenceLoop is the `while let Some(c) = file.next()` loop of a wildcard.
RECURSIVE MatchesFrom(_, _, _, _)
RECURSIVE SequenceLoop(_, _, _, _)
SequenceLoop(tokens, i, file, j) ==
    IF j > Len(file)
    THEN MatchesFrom(tokens, i + 1, file, j)
    ELSE IF tokens[i].t = "AnyRecursiveSequence" /\ ~IsSeparator(file[j])
         THEN SequenceLoop(tokens, i, file, j + 1)
         ELSE LET m == MatchesFrom(tokens, i + 1, file, j + 1) IN
              IF m = "SubPatternDoesntMatch"
              THEN SequenceLoop(tokens, i, file, j + 1)
              ELSE m

MatchesFrom(tokens, i, file, j) ==
    IF i > Len(tokens)
    THEN IF j > Len(file) THEN "Match" ELSE "SubPatternDoesntMatch"
    ELSE IF IsSequenceToken(tokens[i])
         THEN LET m == MatchesFrom(tokens, i + 1, file, j) IN
              IF m = "SubPatternDoesntMatch"
              THEN SequenceLoop(tokens, i, file, j)
              ELSE m
         ELSE IF j > Len(file) THEN "EntirePatternDoesntMatch"
              ELSE IF TokenMatchesChar(tokens[i], file[j])
                   THEN MatchesFrom(tokens, i + 1, file, j + 1)
                   ELSE "SubPatternDoesntMatch"

\* glob::Pattern::matches(&str)
PatternMatches(pat, str) == MatchesFrom(pat.tokens, 1, str, 1) = "Match"

(***************************************************************************)
(* Patterns (src/core/ignore/patterns.rs).                                 *)
(***************************************************************************)

\* the internal placeholder and the globstar it protects
GlobstarPlaceholder == <<"[", "G", "L", "O", "B", "S", "T", "A", "R", "]">>
Globstar == <<"*", "*">>

\* a rule stored without its negation flag
RuleDroppingNegation(compiled, is_negation, is_anchored) ==
    [pattern |-> compiled, is_neg |-> FALSE, is_anchored |-> is_anchored]

\* a rule stored with its negation flag inverted
RuleInvertingNegation(compiled, is_negation, is_anchored) ==
    [pattern |-> compiled, is_neg |-> ~is_negation, is_anchored |-> is_anchored]

\* one element of Patterns::patterns: (Pattern, is_negation, is_anchored)
Rule(compiled, is_negation, is_anchored) ==
    [pattern |-> compiled, is_neg |-> is_negation, is_anchored |-> is_anchored]

\* a successful add that keeps the newest rule only
AddOkNewestOnly(rules) ==
    [ok |-> TRUE,
     patterns |-> IF rules = <<>> THEN rules ELSE <<rules[Len(rules)]>>]

\* the value add_pattern leaves behind: Ok(()) or Err, and the rule list
AddOk(rules)  == [ok |-> TRUE, patterns |-> rules]
AddErr(rules) == [ok |-> FALSE, patterns |-> rules]

\* the extension loop returning after its first extension
PushFirstExtensionOnly(rules, prefix, extensions, rest, is_negation, is_anchored) ==
    LET compiled == PatternNew(Replace(prefix \o Trim(Head(extensions)) \o rest,
                                       GlobstarPlaceholder, Globstar))
    IN  IF ~compiled.ok THEN AddErr(rules)
        ELSE AddOk(Append(rules, Rule(compiled, is_negation, is_anchored)))

\* the extension loop run from the last extension to the first
RECURSIVE PushExtensionsReversed(_, _, _, _, _, _)
PushExtensionsReversed(rules, prefix, extensions, rest, is_negation, is_anchored) ==
    IF extensions = <<>> THEN AddOk(rules)
    ELSE LET ext      == Trim(extensions[Len(extensions)])
             compiled == PatternNew(Replace(prefix \o ext \o rest,
                                            GlobstarPlaceholder, Globstar))
         IN  IF ~compiled.ok THEN AddErr(rules)
             ELSE PushExtensionsReversed(
                      Append(rules, Rule(compiled, is_negation, is_anchored)),
                      prefix, SubSeq(extensions, 1, Len(extensions) - 1), rest,
                      is_negation, is_anchored)

\* the `for ext in extensions` loop: compile and push one rule per extension,
\* `?` returns at the first extension that does not compile
RECURSIVE PushExtensions(_, _, _, _, _, _)
PushExtensions(rules, prefix, extensions, rest, is_negation, is_anchored) ==
    IF extensions = <<>> THEN AddOk(rules)
    ELSE LET ext          == Trim(Head(extensions))
             full_pattern == Replace(prefix \o ext \o rest,
                                     GlobstarPlaceholder, Globstar)
             compiled     == PatternNew(full_pattern)
         IN  IF ~compiled.ok THEN AddErr(rules)
             ELSE PushExtensions(
                      Append(rules, Rule(compiled, is_negation, is_anchored)),
                      prefix, Tail(extensions), rest, is_negation, is_anchored)

\* IsBareFilename that also asks for a `.` in the name
IsBareFilenameWithDot(pattern_str) ==
    /\ ContainsChar(pattern_str, ".")
    /\ \A i \in 1..Len(pattern_str) : pattern_str[i] \notin {"/", "\\", "*", "?", "["}

\* the body text is free of `/`, `\`, `*`, `?` and `[`
IsBareFilename(pattern_str) ==
    /\ ~ContainsChar(pattern_str, "/")
    /\ ~ContainsChar(pattern_str, "\\")
    /\ ~ContainsChar(pattern_str, "*")
    /\ ~ContainsChar(pattern_str, "?")
    /\ ~ContainsChar(pattern_str, "[")

\* GlobPattern with the same directory expansion for negated and non-negated
\* directives
GlobPatternSymmetricDirectory(pattern_str, is_negation) ==
    IF \/ ContainsChar(pattern_str, "*")
       \/ ContainsChar(pattern_str, "?")
       \/ ContainsChar(pattern_str, "[")
    THEN Replace(pattern_str, Globstar, GlobstarPlaceholder)
    ELSE IF EndsWithChar(pattern_str, "/")
    THEN <<"*", "*", "/">> \o pattern_str \o <<"*", "*">>
    ELSE IF is_negation \/ ContainsChar(pattern_str, ".") \/ IsBareFilename(pattern_str)
    THEN pattern_str
    ELSE pattern_str \o <<"/", "*", "*">>

\* GlobPattern without the `/**` shorthand
GlobPatternWithoutShorthand(pattern_str, is_negation) ==
    IF \/ ContainsChar(pattern_str, "*")
       \/ ContainsChar(pattern_str, "?")
       \/ ContainsChar(pattern_str, "[")
    THEN Replace(pattern_str, Globstar, GlobstarPlaceholder)
    ELSE IF EndsWithChar(pattern_str, "/")
    THEN IF is_negation
         THEN <<"*", "*", "/">> \o pattern_str \o <<"*", "*", "/", "*">>
         ELSE <<"*", "*", "/">> \o pattern_str \o <<"*", "*">>
    ELSE pattern_str

\* GlobPattern expanding a directory body `D/` without its separator: `**/D*`
GlobPatternLooseDirectory(pattern_str, is_negation) ==
    IF \/ ContainsChar(pattern_str, "*")
       \/ ContainsChar(pattern_str, "?")
       \/ ContainsChar(pattern_str, "[")
    THEN Replace(pattern_str, Globstar, GlobstarPlaceholder)
    ELSE IF EndsWithChar(pattern_str, "/")
    THEN <<"*", "*", "/">> \o Slice(pattern_str, 1, Len(pattern_str) - 1) \o <<"*">>
    ELSE IF is_negation \/ ContainsChar(pattern_str, ".") \/ IsBareFilename(pattern_str)
    THEN pattern_str
    ELSE pattern_str \o <<"/", "*", "*">>

\* the first value of glob_pattern, before the `**/` prefix is considered
GlobPattern(pattern_str, is_negation) ==
    IF \/ ContainsChar(pattern_str, "*")
       \/ ContainsChar(pattern_str, "?")
       \/ ContainsChar(pattern_str, "[")
    THEN IF ContainsStr(pattern_str, Globstar)
         THEN Replace(pattern_str, Globstar, GlobstarPlaceholder)
         ELSE pattern_str
    ELSE IF EndsWithChar(pattern_str, "/")
    THEN IF is_negation
         THEN <<"*", "*", "/">> \o pattern_str \o <<"*", "*", "/", "*">>
         ELSE <<"*", "*", "/">> \o pattern_str \o <<"*", "*">>
    ELSE IF is_negation \/ ContainsChar(pattern_str, ".") \/ IsBareFilename(pattern_str)
    THEN pattern_str
    ELSE pattern_str \o <<"/", "*", "*">>

\* glob_pattern after the `**/` prefix for non-anchored separator-free globs
PrefixedGlobPattern(glob_pattern, is_anchored) ==
    IF ~is_anchored /\ ~ContainsChar(glob_pattern, "/")
                    /\ ~ContainsChar(glob_pattern, "\\")
    THEN <<"*", "*", "/">> \o glob_pattern
    ELSE glob_pattern

\* Patterns::add_pattern on the rule list `rules`
AddPatternTo(rules, line) ==
    LET trimmed == Trim(line) IN
    IF trimmed = <<>> \/ StartsWithChar(trimmed, "#") THEN AddOk(rules)
    ELSE
    LET is_negation  == StartsWithChar(trimmed, "!")
        pattern      == IF is_negation THEN Tail(trimmed) ELSE trimmed
        is_anchored  == StartsWithChar(pattern, "/")
        pattern_str  == IF is_anchored THEN Tail(pattern) ELSE pattern
        is_bare_filename == IsBareFilename(pattern_str)
        glob_pattern == PrefixedGlobPattern(GlobPattern(pattern_str, is_negation),
                                            is_anchored)
    IN
    IF ContainsChar(glob_pattern, "{") THEN
        LET open == SplitOnce(glob_pattern, "{") IN
        IF ~open.some THEN AddErr(rules)
        ELSE LET close == SplitOnce(open.after, "}") IN
             IF ~close.some THEN AddErr(rules)
             ELSE PushExtensions(rules, open.before, Split(close.before, ","),
                                 close.after, is_negation, is_anchored)
    ELSE IF is_bare_filename /\ ~is_anchored THEN
        LET compiled         == PatternNew(<<"*", "*", "/">> \o pattern_str)
            pattern_compiled == PatternNew(pattern_str)
        IN  IF ~compiled.ok THEN AddErr(rules)
            ELSE IF ~pattern_compiled.ok
                 THEN AddErr(Append(rules, Rule(compiled, is_negation, FALSE)))
                 ELSE AddOk(rules \o << Rule(compiled, is_negation, FALSE),
                                       Rule(pattern_compiled, is_negation, FALSE) >>)
    ELSE
        LET compiled == PatternNew(Replace(glob_pattern, GlobstarPlaceholder, Globstar))
        IN  IF ~compiled.ok THEN AddErr(rules)
            ELSE AddOk(Append(rules, Rule(compiled, is_negation, is_anchored)))

\* std::path::Path::components: empty pieces and inner `.` are dropped, a
\* leading `.` of a relative path is kept (CurDir)
Components(path) ==
    LET pieces == Split(path, "/") IN
    (IF pieces[1] # <<>> THEN <<pieces[1]>> ELSE <<>>)
        \o SelectSeq(Tail(pieces), LAMBDA x : x # <<>> /\ x # <<".">>)

\* Path::file_name().unwrap_or_default(): the last component when it is a
\* normal one, the empty string when the path ends in `..`, is `.` or is empty
FileName(path) ==
    LET cs == Components(path) IN
    IF cs = <<>> THEN <<>>
    ELSE IF cs[Len(cs)] \in {<<".", ".">>, <<".">>} THEN <<>>
         ELSE cs[Len(cs)]

\* SkippedByAnchoring without the anchoring rule: no rule is ever skipped
NeverSkippedByAnchoring(rule, path_str) == FALSE

\* the anchoring rule of both passes: a simple anchored rule (anchored, no
\* `/` in its glob) is skipped for a path that contains `/`
SkippedByAnchoring(rule, path_str) ==
    LET is_simple_anchored ==
            rule.is_anchored /\ ~ContainsChar(rule.pattern.original, "/")
    IN  is_simple_anchored /\ ContainsChar(path_str, "/")

\* RuleMatches testing the filename alone, not the full path
RuleMatchesFilenameOnly(rule, path_str, filename) ==
    PatternMatches(rule.pattern, filename)

\* pattern.matches(&path_str) || pattern.matches(&filename)
RuleMatches(rule, path_str, filename) ==
    PatternMatches(rule.pattern, path_str) \/ PatternMatches(rule.pattern, filename)

\* first loop of matches without the anchoring skip
RECURSIVE NegationPassWithoutSkip(_, _, _, _)
NegationPassWithoutSkip(rules, k, path_str, filename) ==
    IF k > Len(rules) THEN FALSE
    ELSE IF rules[k].is_neg /\ RuleMatches(rules[k], path_str, filename)
         THEN TRUE
         ELSE NegationPassWithoutSkip(rules, k + 1, path_str, filename)

\* first loop of matches, from rule k: TRUE when it returns false (a negation
\* rule hit), FALSE when the loop runs to its end
RECURSIVE NegationPass(_, _, _, _)
NegationPass(rules, k, path_str, filename) ==
    IF k > Len(rules) THEN FALSE
    ELSE IF SkippedByAnchoring(rules[k], path_str)
         THEN NegationPass(rules, k + 1, path_str, filename)
         ELSE IF rules[k].is_neg /\ RuleMatches(rules[k], path_str, filename)
              THEN TRUE
              ELSE NegationPass(rules, k + 1, path_str, filename)

\* second loop of matches, from rule k: TRUE when it returns true
RECURSIVE NormalPass(_, _, _, _)
NormalPass(rules, k, path_str, filename) ==
    IF k > Len(rules) THEN FALSE
    ELSE IF SkippedByAnchoring(rules[k], path_str)
         THEN NormalPass(rules, k + 1, path_str, filename)
         ELSE IF ~rules[k].is_neg /\ RuleMatches(rules[k], path_str, filename)
              THEN TRUE
              ELSE NormalPass(rules, k + 1, path_str, filename)

\* matches as a single scan where the first applicable matching rule decides
RECURSIVE FirstRuleWins(_, _, _, _)
FirstRuleWins(rules, k, path_str, filename) ==
    IF k > Len(rules) THEN FALSE
    ELSE IF ~SkippedByAnchoring(rules[k], path_str)
            /\ RuleMatches(rules[k], path_str, filename)
         THEN ~rules[k].is_neg
         ELSE FirstRuleWins(rules, k + 1, path_str, filename)

MatchesFirstRuleWins(rules, path) == FirstRuleWins(rules, 1, path, FileName(path))

\* matches as a single scan where the last applicable matching rule decides
RECURSIVE LastRuleWins(_, _, _, _)
LastRuleWins(rules, k, path_str, filename) ==
    IF k < 1 THEN FALSE
    ELSE IF ~SkippedByAnchoring(rules[k], path_str)
            /\ RuleMatches(rules[k], path_str, filename)
         THEN ~rules[k].is_neg
         ELSE LastRuleWins(rules, k - 1, path_str, filename)

MatchesLastRuleWins(rules, path) ==
    LastRuleWins(rules, Len(rules), path, FileName(path))

\* matches that takes an empty rule list to ignore every path
MatchesEmptyIgnoresAll(rules, path) ==
    IF rules = <<>> THEN TRUE
    ELSE IF NegationPass(rules, 1, path, FileName(path)) THEN FALSE
    ELSE NormalPass(rules, 1, path, FileName(path))

\* Patterns::matches
Matches(rules, path) ==
    LET path_str == path
        filename == FileName(path)
    IN  IF NegationPass(rules, 1, path_str, filename) THEN FALSE
        ELSE NormalPass(rules, 1, path_str, filename)

(***************************************************************************)
(* Inputs: the directive lines fed to add_pattern and the paths asked of   *)
(* matches.                                                                *)
(***************************************************************************)

LineStarTxt == <<"*", ".", "t", "x", "t">>
LineNegKeep == <<"!", "k", "e", "e", "p", ".", "t", "x", "t">>
LineAnchoredStarMd == <<"/", "*", ".", "m", "d">>
LineNegAnchoredStarTxt == <<"!", "/", "*", ".", "t", "x", "t">>
LineFooDir == <<"f", "o", "o", "/">>
LineNegPath == <<"!", "f", "o", "o", "/", "x", ".", "m", "d">>
LineExtGroup == <<"*", ".", "{", "j", "s", ",", "t", "s", "}">>
LineExtGroupBad == <<"*", ".", "{", "j", "s", ",", "[", "}">>
LineOpenBrace == <<"*", ".", "{", "j", "s">>
LineCloseBrace == <<"*", ".", "j", "s", "}">>

\* lines combined freely, up to MaxLines calls per rule set
Lines ==
    { LineStarTxt,
      LineNegKeep,
      LineAnchoredStarMd,
      LineNegAnchoredStarTxt,
      LineFooDir,
      LineNegPath,
      LineExtGroup,
      LineExtGroupBad,
      LineOpenBrace,
      LineCloseBrace }

LineStarTmp == <<"*", ".", "t", "m", "p">>
LineDraftDir == <<"d", "r", "a", "f", "t", "/">>
LineNegDraftImportant == <<"!", "d", "r", "a", "f", "t", "/", "i", "m", "p", "o", "r", "t", "a", "n", "t", ".", "m", "d">>
LineNodeModulesDir == <<"n", "o", "d", "e", "_", "m", "o", "d", "u", "l", "e", "s", "/">>

\* the four lines of the end-to-end scenario
ScenarioLines ==
    { LineStarTmp,
      LineDraftDir,
      LineNegDraftImportant,
      LineNodeModulesDir }

LineRootMd == <<"/", "r", "o", "o", "t", ".", "m", "d">>
LineAnchoredFooDir == <<"/", "f", "o", "o", "/">>
LineNotes == <<"N", "O", "T", "E", "S", ".", "m", "d">>
LineBraceName == <<"n", "{", "a", ",", "b", "}">>
LineBraceDir == <<"d", "{", "a", ",", "b", "}", "/">>
LineBuild == <<"b", "u", "i", "l", "d">>
LineExtGroupTrim == <<"*", ".", "{", "l", "o", "g", ",", " ", "t", "m", "p", "}">>

\* lines tried as the only directive of a rule set
SingleLines ==
    Lines \cup ScenarioLines \cup
    { LineRootMd,
      LineAnchoredFooDir,
      LineNotes,
      LineBraceName,
      LineBraceDir,
      LineBuild,
      LineExtGroupTrim }

PathATxt == <<"a", ".", "t", "x", "t">>
PathKeepTxt == <<"k", "e", "e", "p", ".", "t", "x", "t">>
PathDATxt == <<"d", "/", "a", ".", "t", "x", "t">>
PathDKeepTxt == <<"d", "/", "k", "e", "e", "p", ".", "t", "x", "t">>
PathFooF == <<"f", "o", "o", "/", "f">>
PathFooXMd == <<"f", "o", "o", "/", "x", ".", "m", "d">>
PathAJs == <<"a", ".", "j", "s">>
PathRootMd == <<"r", "o", "o", "t", ".", "m", "d">>
PathDRootMd == <<"d", "/", "r", "o", "o", "t", ".", "m", "d">>

Paths ==
    { PathATxt,
      PathKeepTxt,
      PathDATxt,
      PathDKeepTxt,
      PathFooF,
      PathFooXMd,
      PathAJs,
      PathRootMd,
      PathDRootMd }

PathATmp == <<"a", ".", "t", "m", "p">>
PathDraftX == <<"d", "r", "a", "f", "t", "/", "x", ".", "m", "d">>
PathDraftImportant == <<"d", "r", "a", "f", "t", "/", "i", "m", "p", "o", "r", "t", "a", "n", "t", ".", "m", "d">>
PathNodeModulesIndex == <<"n", "o", "d", "e", "_", "m", "o", "d", "u", "l", "e", "s", "/", "p", "k", "g", "/", "i", "n", "d", "e", "x", ".", "j", "s">>
PathSrcIndex == <<"s", "r", "c", "/", "i", "n", "d", "e", "x", ".", "j", "s">>

ScenarioPaths ==
    { PathATmp,
      PathDraftX,
      PathDraftImportant,
      PathNodeModulesIndex,
      PathSrcIndex }

PathXYRootMd == <<"x", "/", "y", "/", "r", "o", "o", "t", ".", "m", "d">>
PathXFooF == <<"x", "/", "f", "o", "o", "/", "f">>
PathXYFooF == <<"x", "/", "y", "/", "f", "o", "o", "/", "f">>
PathFoobar == <<"f", "o", "o", "b", "a", "r", ".", "t", "x", "t">>
PathNotes == <<"N", "O", "T", "E", "S", ".", "m", "d">>
PathSubNotes == <<"s", "u", "b", "/", "N", "O", "T", "E", "S", ".", "m", "d">>
PathOldNotes == <<"O", "L", "D", "-", "N", "O", "T", "E", "S", ".", "m", "d">>
PathNotesX == <<"N", "O", "T", "E", "S", ".", "m", "d", "/", "x">>
PathATs == <<"a", ".", "t", "s">>
PathARs == <<"a", ".", "r", "s">>
PathDAJs == <<"d", "/", "a", ".", "j", "s">>
PathJs == <<"j", "s">>
PathBraceName == <<"n", "{", "a", ",", "b", "}">>
PathNa == <<"n", "a">>
PathBraceDirF == <<"d", "{", "a", ",", "b", "}", "/", "f">>
PathDaF == <<"d", "a", "/", "f">>
PathBuild == <<"b", "u", "i", "l", "d">>
PathXBuild == <<"x", "/", "b", "u", "i", "l", "d">>
PathBuildX == <<"b", "u", "i", "l", "d", "/", "x", ".", "t", "x", "t">>
PathTestLog == <<"t", "e", "s", "t", ".", "l", "o", "g">>
PathNodemodules == <<"n", "o", "d", "e", "m", "o", "d", "u", "l", "e", "s", "/", "f", "i", "l", "e", ".", "t", "x", "t">>

SinglePaths ==
    Paths \cup ScenarioPaths \cup
    { PathXYRootMd,
      PathXFooF,
      PathXYFooF,
      PathFoobar,
      PathNotes,
      PathSubNotes,
      PathOldNotes,
      PathNotesX,
      PathATs,
      PathARs,
      PathDAJs,
      PathJs,
      PathBraceName,
      PathNa,
      PathBraceDirF,
      PathDaF,
      PathBuild,
      PathXBuild,
      PathBuildX,
      PathTestLog,
      PathNodemodules }

\* number of add_pattern calls made on one rule set
MaxLines == 2

(***************************************************************************)
(* State: one Patterns value and the last call made on it; the matches     *)
(* calls that workers have in progress on it; the directories and the      *)
(* locals of load_ignore_patterns.                                         *)
(***************************************************************************)
VARIABLES
    patterns,   \* Patterns::patterns, the stored rules in insertion order
    lines,      \* the lines passed to add_pattern so far, in call order
    result,     \* what the last add_pattern returned: "none", "ok", "err"
    op,         \* the last call: "new", "add_pattern", "matches"
    path,       \* the argument of the last matches call
    verdict,    \* the value the last matches call returned
    calls,      \* per worker, the matches call it has in progress
    files,      \* per directory, its `.zrtignore`
    dir,        \* the argument of load_ignore_patterns
    current_dir, \* load_ignore_patterns: current_dir
    visited,    \* load_ignore_patterns: visited
    examined,   \* the directories the loop has examined, in order
    load,       \* load_ignore_patterns: "none", "walking", "ok", "err"
    entry,      \* should_exclude: entry, its path and whether it is a directory
    exclude_dirs, \* should_exclude: exclude_dirs
    ignore_patterns, \* should_exclude: ignore_patterns, None or Some(&patterns)
    excluded    \* the value the last should_exclude call returned

engine_vars == <<patterns, lines, result, op, path, verdict>>

loader_vars == <<files, dir, current_dir, visited, examined, load>>

scan_vars == <<entry, exclude_dirs, ignore_patterns, excluded>>

vars == <<patterns, lines, result, op, path, verdict, calls,
          files, dir, current_dir, visited, examined, load,
          entry, exclude_dirs, ignore_patterns, excluded>>

\* number of workers calling matches on the same rule set
NumWorkers == 2

Workers == 1..NumWorkers

\* a worker that has no matches call in progress
IdleCall == [pc |-> "idle", path |-> <<>>, k |-> 1, verdict |-> FALSE]

\* no load_ignore_patterns call: no directory, no file
NoLoad ==
    /\ files = <<>>
    /\ dir = <<>>
    /\ current_dir = <<>>
    /\ visited = {}
    /\ examined = <<>>
    /\ load = "none"

\* an entry of the walk: its path and what file_type().is_dir() says
Entry(p, is_dir) == [path |-> p, is_dir |-> is_dir]

\* Option<&Patterns>
None == [some |-> FALSE, patterns |-> <<>>]
Some(rules) == [some |-> TRUE, patterns |-> rules]

\* no should_exclude call
NoScan ==
    /\ entry = Entry(<<>>, FALSE)
    /\ exclude_dirs = <<>>
    /\ ignore_patterns = None
    /\ excluded = FALSE

\* Patterns::new
Init ==
    /\ patterns = <<>>
    /\ lines = <<>>
    /\ result = "none"
    /\ op = "new"
    /\ path = <<>>
    /\ verdict = FALSE
    /\ calls = [w \in Workers |-> IdleCall]
    /\ NoLoad
    /\ NoScan

\* a call patterns.add_pattern(line)
AddPattern(line) ==
    /\ LET r == AddPatternTo(patterns, line) IN
        /\ patterns' = r.patterns
        /\ result' = IF r.ok THEN "ok" ELSE "err"
    /\ lines' = Append(lines, line)
    /\ op' = "add_pattern"
    /\ path' = <<>>
    /\ verdict' = FALSE
    /\ UNCHANGED <<calls, loader_vars, scan_vars>>

\* a call patterns.matches(p)
MatchesCall(p) ==
    /\ verdict' = Matches(patterns, p)
    /\ path' = p
    /\ op' = "matches"
    /\ UNCHANGED <<patterns, lines, result, calls, loader_vars, scan_vars>>

\* Any lines in any order, then any queries.
AddAny == Len(lines) < MaxLines /\ \E line \in Lines : AddPattern(line)

MatchAny == \E p \in Paths : MatchesCall(p)

Next == AddAny \/ MatchAny

Spec == Init /\ [][Next]_vars

\* A rule set built from one directive only.
AddOnly == lines = <<>> /\ \E line \in SingleLines : AddPattern(line)

MatchSingle == \E p \in SinglePaths : MatchesCall(p)

NextSingle == AddOnly \/ MatchSingle

SpecSingle == Init /\ [][NextSingle]_vars

\* The four scenario lines, each added once, in any order.
Range(seq) == {seq[i] : i \in 1..Len(seq)}

AddScenario == \E line \in ScenarioLines \ Range(lines) : AddPattern(line)

MatchScenario == \E p \in ScenarioPaths : MatchesCall(p)

NextScenario == AddScenario \/ MatchScenario

SpecScenario == Init /\ [][NextScenario]_vars

\* lines that carry no directive: empty, whitespace only, comments
LineEmpty == <<>>
LineSpaces == <<" ", " ", " ">>
LineComment == <<"#", " ", "c", "o", "m", "m", "e", "n", "t">>
LineIndentedComment == <<" ", " ", "#", " ", "C", "o", "m", "m", "e", "n", "t", " ", "2", " ", " ">>
LineHash == <<"#">>

BlankLines == {LineEmpty, LineSpaces, LineComment, LineIndentedComment, LineHash}

\* blank and comment lines mixed with two directives
AddBlank ==
    /\ Len(lines) < MaxLines
    /\ \E line \in BlankLines \cup {LineStarTxt, LineNegKeep} : AddPattern(line)

MatchBlank == \E p \in Paths : MatchesCall(p)

NextBlank == AddBlank \/ MatchBlank

SpecBlank == Init /\ [][NextBlank]_vars

\* directives whose body contains the globstar
LineGlobstarTemp == <<"*", "*", "/", "t", "e", "m", "p", "/", "*", "*">>
LineBuildGlobstarJs == <<"b", "u", "i", "l", "d", "/", "*", "*", "/", "*", ".", "j", "s">>
LineGlobstarLogGroup == <<"*", "*", "/", "*", ".", "{", "l", "o", "g", ",", "t", "m", "p", "}">>
LinePlaceholderGlobstar == <<"[", "G", "L", "O", "B", "S", "T", "A", "R", "]", "/", "*", "*">>
LineNegGlobstarKeep == <<"!", "*", "*", "/", "k", "e", "e", "p", "/", "*", "*">>
LineAnchoredSrcGlobstar == <<"/", "s", "r", "c", "/", "*", "*">>
LineGlobstarOnly == <<"*", "*">>
LineDocsGlobstarDir == <<"d", "o", "c", "s", "/", "*", "*", "/">>
LineTripleStar == <<"*", "*", "*">>

GlobstarLines ==
    { LineGlobstarTemp,
      LineBuildGlobstarJs,
      LineGlobstarLogGroup,
      LinePlaceholderGlobstar,
      LineNegGlobstarKeep,
      LineAnchoredSrcGlobstar,
      LineGlobstarOnly,
      LineDocsGlobstarDir,
      LineTripleStar }

PathTempF == <<"t", "e", "m", "p", "/", "f">>
PathSrcTempF == <<"s", "r", "c", "/", "t", "e", "m", "p", "/", "f">>
PathSrcTempSubF == <<"s", "r", "c", "/", "t", "e", "m", "p", "/", "s", "u", "b", "/", "f">>
PathSrcTemporaryF == <<"s", "r", "c", "/", "t", "e", "m", "p", "o", "r", "a", "r", "y", "/", "f">>
PathBuildAJs == <<"b", "u", "i", "l", "d", "/", "a", ".", "j", "s">>
PathBuildXAJs == <<"b", "u", "i", "l", "d", "/", "x", "/", "a", ".", "j", "s">>
PathALog == <<"a", ".", "l", "o", "g">>
PathDATmp == <<"d", "/", "a", ".", "t", "m", "p">>
PathGF == <<"G", "/", "f">>
PathXF == <<"x", "/", "f">>
PathSrcKeepF == <<"s", "r", "c", "/", "k", "e", "e", "p", "/", "f">>
PathSrcF == <<"s", "r", "c", "/", "f">>
PathDocsAB == <<"d", "o", "c", "s", "/", "a", "/", "b">>

GlobstarPaths ==
    { PathTempF,
      PathSrcTempF,
      PathSrcTempSubF,
      PathSrcTemporaryF,
      PathBuildAJs,
      PathBuildXAJs,
      PathALog,
      PathDATmp,
      PathGF,
      PathXF,
      PathSrcKeepF,
      PathSrcF,
      PathDocsAB }

\* one globstar directive on a new rule set, then matches calls
AddGlobstar == lines = <<>> /\ \E line \in GlobstarLines : AddPattern(line)

MatchGlobstar == \E p \in GlobstarPaths : MatchesCall(p)

NextGlobstar == AddGlobstar \/ MatchGlobstar

SpecGlobstar == Init /\ [][NextGlobstar]_vars

(***************************************************************************)
(* One directive of each shape add_pattern tells apart.                    *)
(***************************************************************************)
LineBang == <<"!">>
LinePaddedMakefile == <<" ", "M", "a", "k", "e", "f", "i", "l", "e", " ">>
LineBackslashName == <<"a", "\\", "b">>
LineNegFooDir == <<"!", "f", "o", "o", "/">>
LineNegAnchoredFooDir == <<"!", "/", "f", "o", "o", "/">>
LineNestedDir == <<"a", "/", "b", "/">>
LineNegExtGroup == <<"!", "*", ".", "{", "j", "s", ",", "t", "s", "}">>
LineAnchoredExtGroup == <<"/", "*", ".", "{", "j", "s", ",", "t", "s", "}">>
LineTwoGroups == <<"*", ".", "{", "a", ",", "b", "}", ".", "{", "c", ",", "d", "}">>
LineShorthandGroup == <<"s", "r", "c", "/", "{", "a", ",", "b", "}">>
LineNegShorthandGroup == <<"!", "s", "r", "c", "/", "{", "a", ",", "b", "}">>
LineAnchoredGenerated == <<"/", "s", "r", "c", "/", "g", "e", "n", "e", "r", "a", "t", "e", "d", "/", "*", ".", "r", "s">>
LineAnchoredSrcGen == <<"/", "s", "r", "c", "/", "g", "e", "n">>
LineSrcGen == <<"s", "r", "c", "/", "g", "e", "n">>
LineNegSrcGen == <<"!", "s", "r", "c", "/", "g", "e", "n">>
LineSrcGenDot == <<"s", "r", "c", "/", "g", "e", "n", ".", "d">>
LinePlaceholderPath == <<"[", "G", "L", "O", "B", "S", "T", "A", "R", "]", "/", "x", ".", "m", "d">>
LinePlaceholderGroup == <<"[", "G", "L", "O", "B", "S", "T", "A", "R", "]", "/", "*", ".", "{", "a", ",", "b", "}">>
LinePlaceholderName == <<"[", "G", "L", "O", "B", "S", "T", "A", "R", "]", ".", "m", "d">>

ShapeLines ==
    { LineNotes,
      LineNegKeep,
      LineBuild,
      LineBraceName,
      LineFooDir,
      LineAnchoredFooDir,
      LineBraceDir,
      LineExtGroup,
      LineExtGroupTrim,
      LineExtGroupBad,
      LineGlobstarLogGroup,
      LineStarTxt,
      LineBang,
      LinePaddedMakefile,
      LineBackslashName,
      LineNegFooDir,
      LineNegAnchoredFooDir,
      LineNestedDir,
      LineNegExtGroup,
      LineAnchoredExtGroup,
      LineTwoGroups,
      LineShorthandGroup,
      LineNegShorthandGroup,
      LineAnchoredGenerated,
      LineAnchoredSrcGen,
      LineSrcGen,
      LineNegSrcGen,
      LineSrcGenDot,
      LinePlaceholderPath,
      LinePlaceholderName,
      LinePlaceholderGroup }

PathFoo == <<"f", "o", "o">>
PathFooSlash == <<"f", "o", "o", "/">>
PathXFoo == <<"x", "/", "f", "o", "o">>
PathABF == <<"a", "/", "b", "/", "f">>
PathXABF == <<"x", "/", "a", "/", "b", "/", "f">>
PathGeneratedFile == <<"s", "r", "c", "/", "g", "e", "n", "e", "r", "a", "t", "e", "d", "/", "f", "i", "l", "e", ".", "r", "s">>
PathOtherGenerated == <<"o", "t", "h", "e", "r", "/", "g", "e", "n", "e", "r", "a", "t", "e", "d", "/", "f", "i", "l", "e", ".", "r", "s">>
PathXGenerated == <<"x", "/", "s", "r", "c", "/", "g", "e", "n", "e", "r", "a", "t", "e", "d", "/", "f", "i", "l", "e", ".", "r", "s">>
PathSrcGen == <<"s", "r", "c", "/", "g", "e", "n">>
PathSrcGenX == <<"s", "r", "c", "/", "g", "e", "n", "/", "x">>
PathXSrcGenY == <<"x", "/", "s", "r", "c", "/", "g", "e", "n", "/", "y">>
PathSrcGenDot == <<"s", "r", "c", "/", "g", "e", "n", ".", "d">>
PathSrcAF == <<"s", "r", "c", "/", "a", "/", "f">>
PathGXMd == <<"G", "/", "x", ".", "m", "d">>
PathYXMd == <<"y", "/", "x", ".", "m", "d">>
PathGMd == <<"G", ".", "m", "d">>
PathABC == <<"a", ".", "b", ".", "c">>
PathMakefile == <<"M", "a", "k", "e", "f", "i", "l", "e">>
PathBackslashNameF == <<"a", "\\", "b", "/", "f">>

ShapePaths ==
    { PathATxt,
      PathKeepTxt,
      PathDKeepTxt,
      PathFooF,
      PathXFooF,
      PathNotes,
      PathSubNotes,
      PathBuild,
      PathXBuild,
      PathBuildX,
      PathAJs,
      PathATs,
      PathARs,
      PathDAJs,
      PathNa,
      PathDaF,
      PathALog,
      PathDATmp,
      PathFoo,
      PathFooSlash,
      PathXFoo,
      PathABF,
      PathXABF,
      PathGeneratedFile,
      PathOtherGenerated,
      PathXGenerated,
      PathSrcGen,
      PathSrcGenX,
      PathXSrcGenY,
      PathSrcGenDot,
      PathSrcAF,
      PathGXMd,
      PathYXMd,
      PathGMd,
      PathABC,
      PathMakefile,
      PathBackslashNameF }

AddShape == lines = <<>> /\ \E line \in ShapeLines : AddPattern(line)

MatchShape == \E p \in ShapePaths : MatchesCall(p)

NextShape == AddShape \/ MatchShape

SpecShape == Init /\ [][NextShape]_vars

(***************************************************************************)
(* Exclusion during a scan: should_exclude and is_hidden on the entries a  *)
(* walk yields. The name and the path of an entry are OsStr values: a      *)
(* sequence of characters and of bytes that are not valid Unicode.         *)
(***************************************************************************)
\* a byte that is no valid Unicode, as a Unix file name may hold
InvalidByte == "0xFF"

\* U+FFFD, which to_string_lossy puts in the place of such a byte
ReplacementCharacter == "U+FFFD"

\* OsStr::to_str: the text when all of it is valid Unicode, None otherwise
ToStr(os_str) ==
    IF \E i \in 1..Len(os_str) : os_str[i] = InvalidByte
    THEN [some |-> FALSE, str |-> <<>>]
    ELSE [some |-> TRUE, str |-> os_str]

\* OsStr::to_string_lossy
ToStringLossy(os_str) ==
    [i \in 1..Len(os_str) |->
        IF os_str[i] = InvalidByte THEN ReplacementCharacter ELSE os_str[i]]

\* walkdir's DirEntry::file_name: the last component of the path, the whole
\* path when it has none
EntryFileName(e) ==
    IF FileName(e.path) = <<>> THEN e.path ELSE FileName(e.path)

\* the text starts with the prefix
StartsWith(str, prefix) ==
    Len(str) >= Len(prefix) /\ SubSeq(str, 1, Len(prefix)) = prefix

\* is_hidden without the exception for `.tmp`
IsHiddenWithTmp(e) ==
    LET s == ToStr(EntryFileName(e)) IN
    s.some /\ StartsWith(s.str, <<".">>)

\* is_hidden
IsHidden(e) ==
    LET s == ToStr(EntryFileName(e)) IN
    s.some /\ IF StartsWith(s.str, <<".", "t", "m", "p">>)
              THEN FALSE
              ELSE StartsWith(s.str, <<".">>)

\* Patterns::matches on a Path: the text it works on is the lossy one
MatchesPath(rules, os_path) == Matches(rules, ToStringLossy(os_path))

\* should_exclude
ShouldExclude(e, dirs, ignore) ==
    IF IsHidden(e) THEN TRUE
    ELSE IF /\ ToStr(e.path).some
            /\ \E i \in 1..Len(dirs) :
                  \/ /\ e.is_dir
                     /\ ToStr(EntryFileName(e)) = [some |-> TRUE, str |-> dirs[i]]
                  \/ ContainsStr(ToStr(e.path).str, <<"/">> \o dirs[i] \o <<"/">>)
         THEN TRUE
    ELSE IF ignore.some /\ MatchesPath(ignore.patterns, e.path) THEN TRUE
    ELSE FALSE

LineNegDotKeep == <<"!", ".", "k", "e", "e", "p">>

ScanLines == {LineStarTxt, LineNegKeep, LineNegDotKeep}

DirNested == <<"n", "e", "s", "t", "e", "d">>
DirOther == <<"o", "t", "h", "e", "r">>

\* the values of exclude_dirs
ScanExcludeDirs == {<<>>, <<DirNested>>, <<DirOther, DirNested>>}

PathScanRoot == <<".">>
PathHiddenMd == <<"r", "/", ".", "h", "i", "d", "d", "e", "n", ".", "m", "d">>
PathTmpFile == <<"r", "/", ".", "t", "m", "p", "_", "f", "i", "l", "e">>
PathNested == <<"r", "/", "n", "e", "s", "t", "e", "d">>
PathNestedATxt == <<"r", "/", "n", "e", "s", "t", "e", "d", "/", "a", ".", "t", "x", "t">>
PathNormalTxt == <<"r", "/", "n", "o", "r", "m", "a", "l", ".", "t", "x", "t">>
PathRKeepTxt == <<"r", "/", "k", "e", "e", "p", ".", "t", "x", "t">>
PathDotKeep == <<"r", "/", ".", "k", "e", "e", "p">>
PathHiddenInvalid == <<"r", "/", ".", InvalidByte>>
PathInvalidNested == <<"r", "/", InvalidByte, "/", "n", "e", "s", "t", "e", "d">>

ScanPaths ==
    {PathScanRoot, PathHiddenMd, PathTmpFile, PathNested, PathNestedATxt,
     PathNormalTxt, PathRKeepTxt, PathDotKeep, PathHiddenInvalid,
     PathInvalidNested}

\* the paths of them that are directories as well
ScanDirs == {PathScanRoot, PathNested, PathInvalidNested}

\* the entries a walk may hand to should_exclude
ScanEntries ==
    {Entry(p, FALSE) : p \in ScanPaths \ {PathScanRoot}}
        \cup {Entry(p, TRUE) : p \in ScanDirs}

\* one call of should_exclude, on the rule set as it is or on no rule set
ShouldExcludeCall(e, dirs, ignore) ==
    /\ entry' = e
    /\ exclude_dirs' = dirs
    /\ ignore_patterns' = ignore
    /\ excluded' = ShouldExclude(e, dirs, ignore)
    /\ op' = "should_exclude"
    /\ UNCHANGED <<patterns, lines, result, path, verdict, calls, loader_vars>>

AddScan == Len(lines) < MaxLines /\ \E line \in ScanLines : AddPattern(line)

ExcludeScan ==
    \E e \in ScanEntries, dirs \in ScanExcludeDirs, ignore \in {None, Some(patterns)} :
        ShouldExcludeCall(e, dirs, ignore)

NextScan == AddScan \/ ExcludeScan

SpecScan == Init /\ [][NextScan]_vars

(***************************************************************************)
(* Several workers calling matches on one rule set. Each call is taken one *)
(* loop iteration at a time, so that calls of different workers interleave.*)
(***************************************************************************)
WorkerLines == {LineStarTxt, LineNegKeep, LineNegAnchoredStarTxt}

WorkerPaths == {PathATxt, PathKeepTxt, PathDATxt}

\* the loop position of worker 1, whichever worker asks
SharedCursor(w) == calls[1].k

\* the position of worker w's call in the loop it is running
Cursor(w) == calls[w].k

\* the rule set is built before any worker starts
AddForWorkers ==
    /\ \A w \in Workers : calls[w].pc = "idle"
    /\ Len(lines) < MaxLines
    /\ \E line \in WorkerLines : AddPattern(line)

\* worker w enters matches(p)
WorkerCall(w, p) ==
    /\ calls[w].pc \in {"idle", "returned"}
    /\ calls' = [calls EXCEPT ![w] =
                    [pc |-> "first_loop", path |-> p, k |-> 1, verdict |-> FALSE]]
    /\ UNCHANGED <<engine_vars, loader_vars, scan_vars>>

\* worker w runs one iteration of the loop its call is in, or leaves the loop
WorkerStep(w) ==
    LET c        == calls[w]
        k        == Cursor(w)
        filename == FileName(c.path)
        advance  == [c EXCEPT !.k = k + 1]
        return(v) == [pc |-> "returned", path |-> c.path, k |-> 1, verdict |-> v]
    IN
    /\ c.pc \in {"first_loop", "second_loop"}
    /\ calls' = [calls EXCEPT ![w] =
          IF k > Len(patterns)
          THEN IF c.pc = "first_loop"
               THEN [c EXCEPT !.pc = "second_loop", !.k = 1]
               ELSE return(FALSE)
          ELSE IF SkippedByAnchoring(patterns[k], c.path) THEN advance
          ELSE IF c.pc = "first_loop"
               THEN IF patterns[k].is_neg /\ RuleMatches(patterns[k], c.path, filename)
                    THEN return(FALSE) ELSE advance
               ELSE IF ~patterns[k].is_neg /\ RuleMatches(patterns[k], c.path, filename)
                    THEN return(TRUE) ELSE advance]
    /\ UNCHANGED <<engine_vars, loader_vars, scan_vars>>

WorkerCalls == \E w \in Workers : \E p \in WorkerPaths : WorkerCall(w, p)

WorkerSteps == \E w \in Workers : WorkerStep(w)

NextWorkers == AddForWorkers \/ WorkerCalls \/ WorkerSteps

SpecWorkers == Init /\ [][NextWorkers]_vars

(***************************************************************************)
(* load_ignore_patterns: the walk from a directory up through its          *)
(* ancestors, one loop iteration per step.                                 *)
(***************************************************************************)

\* depth of the deepest directory a load starts from
MaxDepth == 2

\* the directory at depth n below the root, as the list of its components;
\* the root is the empty list
DirAt(n) == [i \in 1..n |-> i]

Dirs == {DirAt(n) : n \in 0..MaxDepth}

\* Path::parent
Parent(d) ==
    IF d = <<>> THEN [some |-> FALSE, dir |-> <<>>]
    ELSE [some |-> TRUE, dir |-> SubSeq(d, 1, Len(d) - 1)]

\* str::lines: pieces ended by \n or \r\n, a last piece without line end
\* included, no empty piece after a final line end
RECURSIVE StrLines(_)
StrLines(text) ==
    IF text = <<>> THEN <<>>
    ELSE LET cut == SplitOnce(text, "\n") IN
         IF ~cut.some THEN <<text>>
         ELSE LET line == IF EndsWithChar(cut.before, "\r")
                          THEN Slice(cut.before, 1, Len(cut.before) - 1)
                          ELSE cut.before
              IN  <<line>> \o StrLines(cut.after)

\* what a directory holds under the name `.zrtignore`
NoFile == [exists |-> FALSE, readable |-> FALSE, text |-> <<>>]
Unreadable == [exists |-> TRUE, readable |-> FALSE, text |-> <<>>]
File(text) == [exists |-> TRUE, readable |-> TRUE, text |-> text]

TextEmpty == <<>>
TextCommentsOnly ==
    LineComment \o <<"\n", "\n">> \o LineIndentedComment \o <<"\n">> \o LineSpaces
TextStarTxt == LineStarTxt \o <<"\r", "\n">> \o LineNegKeep \o <<"\r", "\n">>
TextFooDir == LineFooDir \o <<"\n">>
TextBadSecond ==
    LineStarTxt \o <<"\n">> \o LineOpenBrace \o <<"\n">> \o LineFooDir \o <<"\n">>
TextBadPartial == LineExtGroupBad \o <<"\n">> \o LineStarTxt

FileTexts ==
    {TextEmpty, TextCommentsOnly, TextStarTxt, TextFooDir, TextBadSecond, TextBadPartial}

FileStates == {NoFile, Unreadable} \cup {File(text) : text \in FileTexts}

LoadPaths == {PathATxt, PathKeepTxt, PathFooF}

\* ignore_file.exists()
IgnoreFileExists(d) == files[d].exists

\* fs::read_to_string(&ignore_file)
ReadToString(d) == [ok |-> files[d].readable, content |-> files[d].text]

\* the line loop that skips a line add_pattern rejects and goes on
RECURSIVE AddLinesSkippingBad(_, _)
AddLinesSkippingBad(rules, ls) ==
    IF ls = <<>> THEN [ok |-> TRUE, patterns |-> rules, compiled |-> <<>>]
    ELSE LET r    == AddPatternTo(rules, Head(ls))
             rest == AddLinesSkippingBad(IF r.ok THEN r.patterns ELSE rules, Tail(ls))
         IN  [ok |-> TRUE, patterns |-> rest.patterns,
              compiled |-> <<Head(ls)>> \o rest.compiled]

\* for line in content.lines() { patterns.add_pattern(line)?; } : whether
\* every line was accepted, the rule list left behind, and the lines that
\* were passed to add_pattern
RECURSIVE AddLines(_, _)
AddLines(rules, ls) ==
    IF ls = <<>> THEN [ok |-> TRUE, patterns |-> rules, compiled |-> <<>>]
    ELSE LET r == AddPatternTo(rules, Head(ls)) IN
         IF ~r.ok
         THEN [ok |-> FALSE, patterns |-> r.patterns, compiled |-> <<Head(ls)>>]
         ELSE LET rest == AddLines(r.patterns, Tail(ls)) IN
              [ok |-> rest.ok, patterns |-> rest.patterns,
               compiled |-> <<Head(ls)>> \o rest.compiled]

\* the line loop run on a new Patterns, for each text a file can hold.
\* add_pattern reads nothing of the rules already stored and only pushes to
\* them, so the loop leaves behind the rules it started with followed by
\* these.
CompiledText == [text \in FileTexts |-> AddLines(<<>>, StrLines(text))]

\* the end of an iteration that goes on to the parent even after a file
NextDirMerging(d, found) ==
    IF Parent(d).some THEN [walking |-> TRUE, dir |-> Parent(d).dir]
    ELSE [walking |-> FALSE, dir |-> d]

\* the end of an iteration that never goes to the parent
NextDirNeverClimbing(d, found) == [walking |-> FALSE, dir |-> d]

\* the end of an iteration: break after a file, else go to the parent, else
\* break
NextDirAfter(d, found) ==
    IF found THEN [walking |-> FALSE, dir |-> d]
    ELSE IF Parent(d).some THEN [walking |-> TRUE, dir |-> Parent(d).dir]
    ELSE [walking |-> FALSE, dir |-> d]

\* load_ignore_patterns(dir) entered: any start directory, any files
InitLoad ==
    /\ patterns = <<>>
    /\ lines = <<>>
    /\ result = "none"
    /\ op = "new"
    /\ path = <<>>
    /\ verdict = FALSE
    /\ calls = [w \in Workers |-> IdleCall]
    /\ files \in [Dirs -> FileStates]
    /\ dir \in Dirs
    /\ current_dir = dir
    /\ visited = {}
    /\ examined = <<>>
    /\ load = "walking"
    /\ NoScan

\* the loop condition and one iteration of the loop
LoadStep ==
    /\ load = "walking"
    /\ IF current_dir \in visited
       THEN /\ load' = "ok"
            /\ UNCHANGED <<engine_vars, current_dir, visited, examined>>
       ELSE
       LET found == IgnoreFileExists(current_dir)
           read  == ReadToString(current_dir)
           next  == NextDirAfter(current_dir, found)
       IN
       /\ visited' = visited \cup {current_dir}
       /\ examined' = Append(examined, current_dir)
       /\ current_dir' = next.dir
       /\ IF found /\ ~read.ok
          THEN /\ load' = "err"
               /\ UNCHANGED engine_vars
          ELSE IF found
          THEN LET r == CompiledText[read.content] IN
               /\ patterns' = patterns \o r.patterns
               /\ lines' = lines \o r.compiled
               /\ result' = IF r.compiled = <<>> THEN result
                             ELSE IF r.ok THEN "ok" ELSE "err"
               /\ op' = IF r.compiled = <<>> THEN op ELSE "add_pattern"
               /\ UNCHANGED <<path, verdict>>
               /\ load' = IF ~r.ok THEN "err"
                           ELSE IF next.walking THEN "walking" ELSE "ok"
          ELSE /\ load' = IF next.walking THEN "walking" ELSE "ok"
               /\ UNCHANGED engine_vars
    /\ UNCHANGED <<calls, files, dir, scan_vars>>

\* the returned rule set is asked about paths
MatchLoaded == load = "ok" /\ \E p \in LoadPaths : MatchesCall(p)

NextLoad == LoadStep \/ MatchLoaded

SpecLoad == InitLoad /\ [][NextLoad]_vars

\* the loop, once entered, keeps running
SpecLoadFair == SpecLoad /\ WF_vars(LoadStep)

(***************************************************************************)
(* Properties.                                                             *)
(***************************************************************************)

\* s ends with suffix
HasSuffix(s, suffix) ==
    /\ Len(suffix) <= Len(s)
    /\ Slice(s, Len(s) - Len(suffix) + 1, Len(s)) = suffix

\* rule k is a negation rule the anchoring rule does not skip for the path,
\* and its glob matches the full path or the filename
NegationHit(k) ==
    /\ patterns[k].is_neg
    /\ ~(patterns[k].is_anchored
         /\ ~ContainsChar(patterns[k].pattern.original, "/")
         /\ ContainsChar(path, "/"))
    /\ \/ PatternMatches(patterns[k].pattern, path)
       \/ PatternMatches(patterns[k].pattern, FileName(path))

\* rule k is a non-negated rule whose glob matches the full path
PositiveHit(k) ==
    /\ ~patterns[k].is_neg
    /\ PatternMatches(patterns[k].pattern, path)

\* C1: negation always wins. Whenever matches(p) has been called and some
\* negation rule that the anchoring rule does not skip matches p's full path
\* or filename, the call returned false, whatever non-negated rules match p
\* and wherever they stand in the rule list.
C1_NegationAlwaysWins ==
    (op = "matches" /\ \E k \in 1..Len(patterns) : NegationHit(k))
        => verdict = FALSE

\* C1 witness: a negation rule added after a non-negated rule, both matching
\* the queried path, and the verdict is false.
C1_Witness ==
    /\ op = "matches"
    /\ verdict = FALSE
    /\ \E k \in 1..Len(patterns) : \E j \in 1..(k - 1) :
            NegationHit(k) /\ PositiveHit(j)

\* C2: add_pattern is all-or-nothing. A call of add_pattern that returns an
\* error leaves the rule list exactly as it was before the call.
C2_AddPatternAllOrNothing ==
    [][(op' = "add_pattern" /\ result' = "err") => patterns' = patterns]_vars

\* the rule set was built by one successful add_pattern call of a
\* non-negated directive
SinglePositiveDirective ==
    /\ Len(lines) = 1
    /\ result = "ok"
    /\ patterns # <<>>
    /\ \A k \in 1..Len(patterns) : ~patterns[k].is_neg

UnmatchedOpenBrace(line) ==
    \E i \in 1..Len(line) :
        line[i] = "{" /\ \A k \in (i + 1)..Len(line) : line[k] # "}"

\* the line has a `}` with no `{` before it
UnmatchedCloseBrace(line) ==
    \E i \in 1..Len(line) :
        line[i] = "}" /\ \A k \in 1..(i - 1) : line[k] # "{"

\* C4: malformed extension-group braces are a recoverable error. add_pattern
\* on a line with an unmatched `{` or with an unmatched `}` returns an error
\* and stores no rule for the line.
C4_MalformedBracesAreErrors ==
    (/\ op = "add_pattern"
     /\ Len(lines) = 1
     /\ UnmatchedOpenBrace(lines[1]) \/ UnmatchedCloseBrace(lines[1]))
        => (result = "err" /\ patterns = <<>>)

\* every stored rule is a simple root anchor
OnlySimpleAnchoredRules ==
    /\ patterns # <<>>
    /\ \A k \in 1..Len(patterns) :
            /\ patterns[k].is_anchored
            /\ ~ContainsChar(patterns[k].pattern.original, "/")

\* C5: simple root anchor. A rule set holding only rules of anchored
\* directives whose glob has no `/` gives false for every path that contains
\* `/`; with `/root.md` as the only directive, matches("root.md") is true and
\* matches("d/root.md") is false for every directory prefix d.
C5_SimpleRootAnchor ==
    op = "matches" =>
        /\ (OnlySimpleAnchoredRules /\ ContainsChar(path, "/")) => verdict = FALSE
        /\ lines = <<LineRootMd>> =>
            /\ path = <<"r", "o", "o", "t", ".", "m", "d">> => verdict = TRUE
            /\ HasSuffix(path, <<"/", "r", "o", "o", "t", ".", "m", "d">>) => verdict = FALSE

\* C5 witness: `/root.md` is the only directive, the path is root.md inside a
\* directory, and the verdict is false.
C5_Witness ==
    /\ op = "matches"
    /\ lines = <<LineRootMd>>
    /\ result = "ok"
    /\ HasSuffix(path, <<"/", "r", "o", "o", "t", ".", "m", "d">>)
    /\ verdict = FALSE

\* C6: anchoring restricts a directory directive to the root. With `/foo/`
\* as the only directive, matches("foo/f") is true and matches("x/foo/f") is
\* false for every leading directory x.
C6_AnchoredDirectoryRootOnly ==
    (op = "matches" /\ lines = <<LineAnchoredFooDir>>) =>
        /\ path = <<"f", "o", "o", "/", "f">> => verdict = TRUE
        /\ HasSuffix(path, <<"/", "f", "o", "o", "/", "f">>) => verdict = FALSE

\* the line is `D/` for a name D without `/`, without glob metacharacter
\* (`*`, `?`, `[`) and without a leading `!` or `#`
IsDirectoryDirective(line) ==
    /\ Len(line) >= 2
    /\ line[Len(line)] = "/"
    /\ line[1] \notin {"!", "#", " ", "\t"}
    /\ \A i \in 1..(Len(line) - 1) : line[i] \notin {"/", "*", "?", "["}

\* the name D of a directory directive `D/`
DirectoryName(line) == Slice(line, 1, Len(line) - 1)

\* the path has a component equal to name with a further component after it
HasComponentBefore(p, name) ==
    LET pieces == Split(p, "/") IN
    \E i \in 1..(Len(pieces) - 1) : pieces[i] = name

\* the path has a component equal to name
HasComponent(p, name) ==
    LET pieces == Split(p, "/") IN \E i \in 1..Len(pieces) : pieces[i] = name

\* C7 as stated: with `D/` (no glob metacharacters) as the only directive,
\* matches(p) is true for every p with a component D followed by a further
\* component, and false for every p without a component equal to D.
C7_DirectoryDirectiveOriginal ==
    (op = "matches" /\ Len(lines) = 1 /\ IsDirectoryDirective(lines[1])) =>
        /\ HasComponentBefore(path, DirectoryName(lines[1])) => verdict = TRUE
        /\ ~HasComponent(path, DirectoryName(lines[1])) => verdict = FALSE

\* C7 amended: the same for a name D that also has no `{`. With `D/` (no
\* glob metacharacter and no `{`) as the only directive, matches(p) is true
\* for every p with a component D followed by a further component, at the
\* root or under leading directories, and false for every p without a
\* component equal to D.
C7_DirectoryDirective ==
    (/\ op = "matches"
     /\ Len(lines) = 1
     /\ IsDirectoryDirective(lines[1])
     /\ ~ContainsChar(lines[1], "{")) =>
        /\ result = "ok"
        /\ HasComponentBefore(path, DirectoryName(lines[1])) => verdict = TRUE
        /\ ~HasComponent(path, DirectoryName(lines[1])) => verdict = FALSE

\* C7 witness: a brace-free directory directive is the only one, the path
\* has the directory under two leading directories, and the verdict is true.
C7_Witness ==
    /\ op = "matches"
    /\ Len(lines) = 1
    /\ IsDirectoryDirective(lines[1])
    /\ ~ContainsChar(lines[1], "{")
    /\ LET pieces == Split(path, "/") IN
        Len(pieces) = 4 /\ pieces[3] = DirectoryName(lines[1])
    /\ verdict = TRUE

\* the line is a non-anchored, non-negated name without path separator and
\* without glob metacharacter
IsBareNameDirective(line) ==
    /\ line # <<>>
    /\ line[1] \notin {"!", "#", " ", "\t"}
    /\ \A i \in 1..Len(line) : line[i] \notin {"/", "\\", "*", "?", "["}

\* C8 as stated: with a bare name N (no separator, no glob metacharacter) as
\* the only directive, matches(p) is true exactly when the last component of
\* p equals N.
C8_BareFilenameOriginal ==
    (op = "matches" /\ Len(lines) = 1 /\ IsBareNameDirective(lines[1])) =>
        verdict = (FileName(path) = lines[1])

\* C8 amended: the same for a name N that also has no `{`. With a
\* non-anchored directive N without path separator, glob metacharacter or
\* `{` as the only directive, matches(p) is true exactly when the last
\* component of p equals N.
C8_BareFilename ==
    (/\ op = "matches"
     /\ Len(lines) = 1
     /\ IsBareNameDirective(lines[1])
     /\ ~ContainsChar(lines[1], "{")) =>
        /\ result = "ok"
        /\ verdict = (FileName(path) = lines[1])

\* C8 witness: a brace-free bare name is the only directive, the path has it
\* as last component below a directory, and the verdict is true.
C8_Witness ==
    /\ op = "matches"
    /\ Len(lines) = 1
    /\ IsBareNameDirective(lines[1])
    /\ ~ContainsChar(lines[1], "{")
    /\ ContainsChar(path, "/")
    /\ FileName(path) = lines[1]
    /\ verdict = TRUE

\* the line is `*.{e1,...,en}` with literal extensions
IsExtensionGroup(line) ==
    /\ Len(line) >= 4
    /\ Slice(line, 1, 3) = <<"*", ".", "{">>
    /\ line[Len(line)] = "}"
    /\ \A i \in 4..(Len(line) - 1) :
            line[i] \notin {"{", "}", "/", "\\", "*", "?", "[", "."}

\* the listed extensions e1..en of an extension-group line
ListedExtensions(line) ==
    LET items == Split(Slice(line, 4, Len(line) - 1), ",") IN
    {Trim(items[i]) : i \in 1..Len(items)}

\* C9: extension group. With `*.{e1,...,en}` as the only directive,
\* matches(p) is true for every path whose filename ends in `.ei` for a
\* listed ei and false for every other path.
C9_ExtensionGroup ==
    (op = "matches" /\ Len(lines) = 1 /\ IsExtensionGroup(lines[1])) =>
        /\ result = "ok"
        /\ verdict = (\E e \in ListedExtensions(lines[1]) :
                            HasSuffix(FileName(path), <<".">> \o e))

\* C9 witness: an extension group is the only directive, the filename ends
\* in an extension other than the first listed one, and the verdict is true.
C9_Witness ==
    /\ op = "matches"
    /\ Len(lines) = 1
    /\ IsExtensionGroup(lines[1])
    /\ LET first == Trim(Head(Split(Slice(lines[1], 4, Len(lines[1]) - 1), ",")))
       IN  \E e \in ListedExtensions(lines[1]) \ {first} :
                HasSuffix(FileName(path), <<".">> \o e)
    /\ verdict = TRUE

\* the verdicts the end-to-end scenario expects
ScenarioExpected(p) ==
    CASE p = <<"a", ".", "t", "m", "p">> -> TRUE
      [] p = <<"d", "r", "a", "f", "t", "/", "x", ".", "m", "d">> -> TRUE
      [] p = <<"d", "r", "a", "f", "t", "/", "i", "m", "p", "o", "r", "t", "a", "n", "t", ".", "m", "d">> -> FALSE
      [] p = <<"n", "o", "d", "e", "_", "m", "o", "d", "u", "l", "e", "s", "/", "p", "k", "g", "/", "i", "n", "d", "e", "x", ".", "j", "s">> -> TRUE
      [] p = <<"s", "r", "c", "/", "i", "n", "d", "e", "x", ".", "j", "s">> -> FALSE

\* C10: end-to-end scenario. Once `*.tmp`, `draft/`, `!draft/important.md`
\* and `node_modules/` have all been added, in any order, every add has
\* succeeded and matches gives a.tmp true, draft/x.md true,
\* draft/important.md false, node_modules/pkg/index.js true and
\* src/index.js false.
C10_EndToEndScenario ==
    /\ op = "add_pattern" => result = "ok"
    /\ (op = "matches" /\ Range(lines) = ScenarioLines) =>
            verdict = ScenarioExpected(path)

\* C10 witness: the four lines were added with the negation first and
\* `draft/` last, draft/important.md is queried, and the verdict is false.
C10_Witness ==
    /\ op = "matches"
    /\ Len(lines) = 4
    /\ lines[1] = LineNegDraftImportant
    /\ lines[4] = LineDraftDir
    /\ path = <<"d", "r", "a", "f", "t", "/", "i", "m", "p", "o", "r", "t", "a", "n", "t", ".", "m", "d">>
    /\ verdict = FALSE

\* the line is empty or whitespace only, or its first non-blank character
\* is #
IsBlankOrComment(line) ==
    \/ \A i \in 1..Len(line) : IsWhitespace(line[i])
    \/ \E i \in 1..Len(line) :
          /\ line[i] = "#"
          /\ \A j \in 1..(i - 1) : IsWhitespace(line[j])

\* C11: blank and comment lines are no-ops. add_pattern on a line that is
\* empty, whitespace only, or whose first non-blank character is # returns
\* success and leaves the rule list as it was; and on a rule set built from
\* such lines only (or from no line) matches returns false for every path.
C11_BlankAndCommentLines ==
    /\ [][(op' = "add_pattern" /\ IsBlankOrComment(lines'[Len(lines')]))
            => (result' = "ok" /\ patterns' = patterns)]_vars
    /\ []((\A i \in 1..Len(lines) : IsBlankOrComment(lines[i]))
            => /\ patterns = <<>>
               /\ result # "err"
               /\ op = "matches" => ~verdict)

C11_Witness ==
    /\ Len(lines) = 2
    /\ lines[1] = LineIndentedComment
    /\ lines[2] = LineSpaces
    /\ op = "matches"
    /\ path = PathATxt

\* a is a prefix of b
IsPrefix(a, b) == Len(a) <= Len(b) /\ SubSeq(b, 1, Len(a)) = a

\* C12: the rule list is append-only for add_pattern and read-only for
\* matches. Across every add_pattern call, failing ones included, the list
\* before the call is a prefix of the list after it; across every matches
\* call the list is identical before and after.
C12_AppendOnly ==
    [][/\ IsPrefix(patterns, patterns')
       /\ op' = "matches" => patterns' = patterns]_vars

C12_Witness ==
    /\ op = "matches"
    /\ lines = <<LineExtGroup, LineNegKeep>>
    /\ Len(patterns) = 4

\* the rule takes part in the decision for path p: it is not an anchored
\* rule with a slash-free glob facing a path that contains a slash
Applicable(rule, p) ==
    ~(/\ rule.is_anchored
      /\ ~ContainsChar(rule.pattern.original, "/")
      /\ ContainsChar(p, "/"))

\* the glob of the rule matches the full path or the filename of p
HitsPathOrFilename(rule, p) ==
    \/ PatternMatches(rule.pattern, p)
    \/ PatternMatches(rule.pattern, FileName(p))

\* the order-free reading of matches
ReferenceVerdict(rules, p) ==
    /\ ~\E k \in 1..Len(rules) :
            rules[k].is_neg /\ Applicable(rules[k], p) /\ HitsPathOrFilename(rules[k], p)
    /\ \E k \in 1..Len(rules) :
            ~rules[k].is_neg /\ Applicable(rules[k], p) /\ HitsPathOrFilename(rules[k], p)

\* the list with the rules at positions i and i + 1 exchanged
SwapAdjacent(rules, i) ==
    [k \in 1..Len(rules) |->
        IF k = i THEN rules[i + 1] ELSE IF k = i + 1 THEN rules[i] ELSE rules[k]]

\* the list in reverse order
Reversed(rules) == [k \in 1..Len(rules) |-> rules[Len(rules) + 1 - k]]

\* C19: two-pass reference semantics. The verdict of matches(p) is: no
\* applicable negation rule matches p's full path or filename, and some
\* applicable non-negated rule does. The verdict stays the same when the
\* rule list is reordered: under every exchange of two neighbours (these
\* generate every permutation) and under reversal.
C19_TwoPassReference ==
    op = "matches" =>
        /\ verdict = ReferenceVerdict(patterns, path)
        /\ \A i \in 1..(Len(patterns) - 1) :
               Matches(SwapAdjacent(patterns, i), path) = verdict
        /\ Matches(Reversed(patterns), path) = verdict

C19_Witness ==
    /\ op = "matches"
    /\ lines = <<LineNegAnchoredStarTxt, LineStarTxt>>
    /\ path = PathDATxt
    /\ verdict

\* the body of a directive: the trimmed line without a leading `!` and
\* without the leading `/` of an anchored directive
DirectiveBody(line) ==
    LET trimmed  == Trim(line)
        unnegated == IF StartsWithChar(trimmed, "!") THEN Tail(trimmed) ELSE trimmed
    IN  IF StartsWithChar(unnegated, "/") THEN Tail(unnegated) ELSE unnegated

\* the globs a body stands for: the body itself, or one glob per listed
\* extension when the body has an extension group
BodyExpansions(body) ==
    LET open == SplitOnce(body, "{") IN
    IF ~open.some THEN {body}
    ELSE LET close == SplitOnce(open.after, "}")
             items == Split(close.before, ",")
         IN  IF ~close.some THEN {}
             ELSE {open.before \o Trim(items[i]) \o close.after : i \in 1..Len(items)}

\* C20: globstar survives compilation. After add_pattern on a directive whose
\* body contains `**`, every stored glob is the body (or one of its
\* extension-group expansions), possibly behind an added `**/` prefix, so that
\* `**` stands exactly where the body had it, and no stored glob contains the
\* placeholder text; and `**/temp/**` matches temp/f, src/temp/f and
\* src/temp/sub/f but not src/temporary/f.
C20_GlobstarSurvives ==
    (Len(lines) = 1 /\ ContainsStr(DirectiveBody(lines[1]), Globstar)) =>
        /\ \A k \in 1..Len(patterns) :
              /\ \E g \in BodyExpansions(DirectiveBody(lines[1])) :
                    patterns[k].pattern.original \in {g, <<"*", "*", "/">> \o g}
              /\ ~ContainsStr(patterns[k].pattern.original, GlobstarPlaceholder)
        /\ (lines[1] = LineGlobstarTemp /\ op = "matches") =>
              /\ result = "ok"
              /\ path \in {PathTempF, PathSrcTempF, PathSrcTempSubF} => verdict
              /\ path = PathSrcTemporaryF => ~verdict

\* C14: concurrent matching is safe. However the loop iterations of the
\* workers' matches calls interleave, every call that has returned has
\* returned the verdict matches gives on the rule set when run alone, and no
\* step of a worker changes the rule set.
C14_ConcurrentMatching ==
    /\ [](\A w \in Workers :
            calls[w].pc = "returned" =>
                calls[w].verdict = Matches(patterns, calls[w].path))
    /\ [][calls' # calls => patterns' = patterns]_vars

C14_Witness ==
    /\ Len(patterns) = 3
    /\ calls[1].pc = "returned"
    /\ calls[1].path = PathATxt
    /\ calls[1].verdict
    /\ calls[2].pc = "first_loop"
    /\ calls[2].path = PathKeepTxt
    /\ calls[2].k = 2

\* the directory and its ancestors
Ancestors(d) == {SubSeq(d, 1, n) : n \in 0..Len(d)}

\* those of them that contain a `.zrtignore`
WithFile(d) == {a \in Ancestors(d) : files[a].exists}

\* the first of them on the way up
Nearest(d) == CHOOSE a \in WithFile(d) : \A b \in WithFile(d) : Len(b) <= Len(a)

\* d, its parent, and so on up to the ancestor stop
WalkUp(d, stop) == [i \in 1..(Len(d) - Len(stop) + 1) |-> SubSeq(d, 1, Len(d) + 1 - i)]

\* load_ignore_patterns has returned
LoadDone == load \in {"ok", "err"}

\* the rule could have been stored by add_pattern on the line
StoredFor(rule, line) ==
    LET r == AddPatternTo(<<>>, line) IN \E k \in 1..Len(r.patterns) : r.patterns[k] = rule

\* C15: first spec file found wins. The loader examines the start directory,
\* then its parent, then the next ancestor, in that order; when some
\* directory on the way has a `.zrtignore` it stops at the first such
\* directory, the only lines it passes to add_pattern are lines of that file
\* (all of them when the load succeeds), and every rule of the returned set
\* comes from a line of that file, also when that file is empty or has
\* comments only.
C15_FirstFileWins ==
    /\ IsPrefix(examined, WalkUp(dir, <<>>))
    /\ (LoadDone /\ WithFile(dir) # {}) =>
          LET nearest == Nearest(dir)
              ls      == StrLines(files[nearest].text)
          IN  /\ examined = WalkUp(dir, nearest)
              /\ current_dir = nearest
              /\ IsPrefix(lines, ls)
              /\ files[nearest].readable =>
                    \/ load = "err"
                    \/ /\ lines = ls
                       /\ \A k \in 1..Len(patterns) :
                             \E n \in 1..Len(ls) : StoredFor(patterns[k], ls[n])

C15_Witness ==
    /\ load = "ok"
    /\ dir = DirAt(2)
    /\ files[DirAt(2)] = File(TextCommentsOnly)
    /\ files[DirAt(1)] = File(TextStarTxt)
    /\ files[DirAt(0)] = File(TextFooDir)
    /\ patterns = <<>>
    /\ op = "matches"
    /\ path = PathATxt
    /\ ~verdict

\* C16: fail-fast load. When add_pattern rejects a line of the spec file the
\* loader reads, the load returns the error and no rule set is ever asked
\* about a path; the lines passed to add_pattern are the lines of the file up
\* to and including the first rejected one, none after it.
C16_FailFastLoad ==
    (LoadDone /\ files[current_dir].exists /\ files[current_dir].readable) =>
        LET ls  == StrLines(files[current_dir].text)
            bad == {n \in 1..Len(ls) : ~AddPatternTo(<<>>, ls[n]).ok}
        IN  bad # {} =>
              /\ load = "err"
              /\ op # "matches"
              /\ \E n \in bad :
                    /\ \A m \in bad : n <= m
                    /\ lines = SubSeq(ls, 1, n)

C16_Witness ==
    /\ load = "err"
    /\ files[current_dir] = File(TextBadSecond)
    /\ lines = <<LineStarTxt, LineOpenBrace>>
    /\ dir = DirAt(2)
    /\ current_dir = DirAt(1)

\* C17: no spec file means nothing is ignored. When neither the start
\* directory nor any ancestor has a `.zrtignore`, the load succeeds with an
\* empty rule set and matches on it is false for every path.
C17_NoFileIgnoresNothing ==
    (LoadDone /\ WithFile(dir) = {}) =>
        /\ load = "ok"
        /\ patterns = <<>>
        /\ op = "matches" => ~verdict

C17_Witness ==
    /\ LoadDone
    /\ dir = DirAt(2)
    /\ WithFile(dir) = {}
    /\ op = "matches"
    /\ path = PathKeepTxt

\* C18: the upward walk terminates. The loop examines no directory twice,
\* runs at most once per directory from the start up to the root, ends in
\* every run, and when it has ended it has found a spec file, or stands at a
\* directory without parent, or has met a directory it had visited.
C18_WalkTerminates ==
    /\ [](/\ \A m, n \in 1..Len(examined) : examined[m] = examined[n] => m = n
          /\ Len(examined) <= Len(dir) + 1
          /\ LoadDone =>
                \/ files[current_dir].exists
                \/ ~Parent(current_dir).some
                \/ \E n \in 1..(Len(examined) - 1) : examined[n] = current_dir)
    /\ <>LoadDone

C18_Witness ==
    /\ load = "ok"
    /\ dir = DirAt(2)
    /\ examined = <<DirAt(2), DirAt(1), DirAt(0)>>
    /\ ~files[current_dir].exists

\* the line holds a directive: it is not blank and not a comment
IsDirective(line) == ~IsBlankOrComment(line)

\* the directive starts with `!`
IsNegated(line) == StartsWithChar(Trim(line), "!")

\* the directive, after a leading `!`, starts with `/`
IsAnchored(line) ==
    LET trimmed == Trim(line) IN
    StartsWithChar(IF StartsWithChar(trimmed, "!") THEN Tail(trimmed) ELSE trimmed, "/")

\* none of the characters occurs in the text
FreeOf(text, chars) == \A i \in 1..Len(text) : text[i] \notin chars

\* the glob text of the stored rule k
Stored(k) == patterns[k].pattern.original

\* C21: bare-filename duplication. After add_pattern on a non-anchored
\* directive whose body has no path separator, no glob metacharacter and no
\* `{`, the rule list holds exactly two rules: `**/<name>`, then `<name>`;
\* both carry the directive's negation flag and anchored = false.
C21_BareFilenameTwoRules ==
    (/\ Len(lines) = 1
     /\ IsDirective(lines[1])
     /\ ~IsAnchored(lines[1])
     /\ FreeOf(DirectiveBody(lines[1]), {"/", "\\", "*", "?", "[", "{"})) =>
        /\ result = "ok"
        /\ Len(patterns) = 2
        /\ Stored(1) = <<"*", "*", "/">> \o DirectiveBody(lines[1])
        /\ Stored(2) = DirectiveBody(lines[1])
        /\ \A k \in 1..2 :
              /\ patterns[k].is_neg = IsNegated(lines[1])
              /\ ~patterns[k].is_anchored

C21_Witness ==
    /\ lines = <<LineNegKeep>>
    /\ op = "add_pattern"
    /\ Len(patterns) = 2
    /\ patterns[2].is_neg

\* what C22 says of the one stored rule of a directory directive
DirectoryRuleShape ==
    /\ result = "ok"
    /\ Len(patterns) = 1
    /\ HasSuffix(Stored(1),
                 DirectiveBody(lines[1]) \o
                 (IF IsNegated(lines[1]) THEN <<"*", "*", "/", "*">> ELSE <<"*", "*">>))
    /\ patterns[1].is_neg = IsNegated(lines[1])
    /\ patterns[1].is_anchored = IsAnchored(lines[1])

\* C22 as stated: after add_pattern on a directive whose body has no glob
\* metacharacter (`*`, `?`, `[`) and ends with `/`, the rule list holds
\* exactly one rule; its glob ends with `<body>**` when the directive is not
\* negated and with `<body>**/*` when it is, and it keeps the directive's
\* negation and anchored flags.
C22_DirectoryExpansionOriginal ==
    (/\ Len(lines) = 1
     /\ IsDirective(lines[1])
     /\ FreeOf(DirectiveBody(lines[1]), {"*", "?", "["})
     /\ EndsWithChar(DirectiveBody(lines[1]), "/")) => DirectoryRuleShape

\* C22, amended: the same for a body that has no `{` either.
C22_DirectoryExpansion ==
    (/\ Len(lines) = 1
     /\ IsDirective(lines[1])
     /\ FreeOf(DirectiveBody(lines[1]), {"*", "?", "[", "{"})
     /\ EndsWithChar(DirectiveBody(lines[1]), "/")) => DirectoryRuleShape

C22_Witness ==
    /\ lines = <<LineNegAnchoredFooDir>>
    /\ op = "add_pattern"
    /\ Stored(1) = <<"*", "*", "/", "f", "o", "o", "/", "*", "*", "/", "*">>
    /\ patterns[1].is_neg
    /\ patterns[1].is_anchored

\* the path is the directory D itself, as `D` or as `D/`
IsDirectoryItself(p, name) == p = name \/ p = name \o <<"/">>

\* the path lies beneath the root directory D
IsBeneath(p, name) ==
    /\ Len(p) > Len(name) + 1
    /\ Slice(p, 1, Len(name) + 1) = name \o <<"/">>

\* C23: a directory directive covers the directory itself. With a
\* non-negated `D/` as the only directive, matches is true for the path `D`,
\* for the path `D/` and for every path beneath D.
C23_DirectoryCoversItself ==
    (op = "matches" /\ Len(lines) = 1 /\ IsDirectoryDirective(lines[1])) =>
        ((\/ IsDirectoryItself(path, DirectoryName(lines[1]))
          \/ IsBeneath(path, DirectoryName(lines[1]))) => verdict)

\* the body has a `{` and a `}` after it
HasGroup(body) ==
    /\ SplitOnce(body, "{").some
    /\ SplitOnce(SplitOnce(body, "{").after, "}").some

\* the comma-separated items between the first `{` and the first `}` after it
GroupItems(body) ==
    Split(SplitOnce(SplitOnce(body, "{").after, "}").before, ",")

\* the glob C24 expects for item i of the group of the line: the body with
\* its first group replaced by the trimmed item, behind `**/` when the
\* directive is not anchored and its body has no separator
ExpectedGroupGlob(line, i) ==
    LET body == DirectiveBody(line)
        open == SplitOnce(body, "{")
        close == SplitOnce(open.after, "}")
        full == open.before \o Trim(GroupItems(body)[i]) \o close.after
    IN  IF ~IsAnchored(line) /\ FreeOf(body, {"/", "\\"})
        THEN <<"*", "*", "/">> \o full
        ELSE full

\* what C24 says of the rules stored for a line with an extension group
GroupRuleShape ==
    /\ result = "ok"
    /\ Len(patterns) = Len(GroupItems(DirectiveBody(lines[1])))
    /\ \A k \in 1..Len(patterns) :
          /\ Stored(k) = ExpectedGroupGlob(lines[1], k)
          /\ patterns[k].is_neg = IsNegated(lines[1])
          /\ patterns[k].is_anchored = IsAnchored(lines[1])

DotlessNameShape ==
    LET name == DirectiveBody(lines[1]) IN
    /\ result = "ok"
    /\ Len(patterns) = 2
    /\ Stored(1) = <<"*", "*", "/">> \o name
    /\ Stored(2) = name
    /\ op = "matches" =>
          /\ FileName(path) = name => verdict
          /\ (IsBeneath(path, name) /\ FileName(path) # name) => ~verdict

\* C25 as stated: a non-negated, non-anchored directive whose body has no
\* `/`, no glob metacharacter and no `.` takes the bare-filename branch: it
\* stores `**/<body>` and `<body>` and no `<body>/**`, matches every path
\* whose last component is <body> and does not match a path beneath <body>.
C25_DotlessBareNameOriginal ==
    (/\ Len(lines) = 1
     /\ IsDirective(lines[1])
     /\ ~IsNegated(lines[1])
     /\ ~IsAnchored(lines[1])
     /\ FreeOf(DirectiveBody(lines[1]), {"/", "*", "?", "[", "."})) => DotlessNameShape

\* C25, amended: the same for a body that has no `\` and no `{` either.
C25_DotlessBareName ==
    (/\ Len(lines) = 1
     /\ IsDirective(lines[1])
     /\ ~IsNegated(lines[1])
     /\ ~IsAnchored(lines[1])
     /\ FreeOf(DirectiveBody(lines[1]), {"/", "\\", "*", "?", "[", ".", "{"}))
        => DotlessNameShape

C25_Witness ==
    /\ lines = <<LineBuild>>
    /\ op = "matches"
    /\ path = PathXBuild
    /\ verdict

\* the leading directories of a body: its text up to the last `/` that
\* stands before any glob metacharacter
RECURSIVE LeadingDirectories(_, _)
LeadingDirectories(body, n) ==
    IF n = 0 THEN <<>>
    ELSE IF body[n] = "/" /\ FreeOf(Slice(body, 1, n), {"*", "?", "["})
         THEN Slice(body, 1, n)
         ELSE LeadingDirectories(body, n - 1)

\* C26: anchored path patterns match from the root only. After add_pattern
\* on an anchored directive whose body contains `/`, the stored glob has no
\* added `**/` prefix (it starts with the body), and matches(p) is true only
\* for paths that begin with the leading directories of the body.
C26_AnchoredPathFromRoot ==
    (/\ Len(lines) = 1
     /\ IsDirective(lines[1])
     /\ IsAnchored(lines[1])
     /\ ContainsChar(DirectiveBody(lines[1]), "/")) =>
        LET body == DirectiveBody(lines[1])
            dirs == LeadingDirectories(body, Len(body))
        IN  /\ \A k \in 1..Len(patterns) :
                  Slice(Stored(k), 1, Len(dirs)) = dirs
            /\ (op = "matches" /\ verdict) => Slice(path, 1, Len(dirs)) = dirs

\* C27: verdicts are monotone in the directives. Across every add_pattern
\* call, successful or failed, of a line that is not negated no path goes
\* from matched to not matched, and across every add_pattern call of a
\* negated line no path goes from not matched to matched.
C27_MonotoneVerdicts ==
    [][op' = "add_pattern" =>
          \A p \in Paths :
              IF IsNegated(lines'[Len(lines')])
              THEN Matches(patterns', p) => Matches(patterns, p)
              ELSE Matches(patterns, p) => Matches(patterns', p)]_vars

C27_Witness ==
    /\ lines = <<LineStarTxt, LineNegKeep>>
    /\ op = "add_pattern"
    /\ ~Matches(patterns, PathKeepTxt)
    /\ Matches(patterns, PathATxt)

\* the body is a literal path with a separator that does not end with `/`
IsLiteralPath(body, meta) ==
    /\ ContainsChar(body, "/") \/ ContainsChar(body, "\\")
    /\ FreeOf(body, meta)
    /\ ~EndsWithChar(body, "/")

\* what C28 says of the one stored rule of a literal path: the body with
\* `/**` added for a non-negated body without `.`, which then matches the
\* paths beneath the body from the root and nothing else; the body as it is
\* for a negated directive or a body with `.`
LiteralPathShape ==
    LET body == DirectiveBody(lines[1])
        shorthand == ~IsNegated(lines[1]) /\ ~ContainsChar(body, ".")
    IN  /\ result = "ok"
        /\ Len(patterns) = 1
        /\ Stored(1) = IF shorthand THEN body \o <<"/", "*", "*">> ELSE body
        /\ patterns[1].is_neg = IsNegated(lines[1])
        /\ (shorthand /\ op = "matches") =>
              /\ verdict = (/\ Len(path) > Len(body)
                            /\ Slice(path, 1, Len(body) + 1) = body \o <<"/">>)
              /\ path = body => ~verdict

\* C28 as stated: a non-negated directive whose body contains a path
\* separator, has no glob metacharacter (`*`, `?`, `[`) and no `.`, and
\* does not end with `/`, stores exactly one rule `<body>/**`, which matches
\* the paths beneath `<body>` from the root and not the path `<body>`; the
\* same body negated or with a `.` is stored as the literal glob `<body>`.
C28_DirectoryShorthandOriginal ==
    (/\ Len(lines) = 1
     /\ IsDirective(lines[1])
     /\ IsLiteralPath(DirectiveBody(lines[1]), {"*", "?", "["})) => LiteralPathShape

\* C28, amended: the same for a body that has no `{` either.
C28_DirectoryShorthand ==
    (/\ Len(lines) = 1
     /\ IsDirective(lines[1])
     /\ IsLiteralPath(DirectiveBody(lines[1]), {"*", "?", "[", "{"})) => LiteralPathShape

C28_Witness ==
    /\ lines = <<LineSrcGen>>
    /\ op = "matches"
    /\ path = PathSrcGenX
    /\ verdict
    /\ Stored(1) = <<"s", "r", "c", "/", "g", "e", "n", "/", "*", "*">>

\* the entry's name starts with `.` but not with `.tmp`
NameIsHidden(e) ==
    /\ StartsWith(EntryFileName(e), <<".">>)
    /\ ~StartsWith(EntryFileName(e), <<".", "t", "m", "p">>)

\* the entry is a directory named in the list, or its path contains `/<dir>/`
\* for a dir of the list
InExcludedDir(e, dirs) ==
    \E i \in 1..Len(dirs) :
        \/ e.is_dir /\ EntryFileName(e) = dirs[i]
        \/ ContainsStr(e.path, <<"/">> \o dirs[i] \o <<"/">>)

\* C29 as stated: exclusion during a scan is a plain disjunction.
\* should_exclude is true exactly when the entry's name is hidden (starts
\* with `.` but not with `.tmp`), or the entry is a directory named in
\* exclude_dirs or its path contains `/<dir>/` for an excluded dir, or
\* patterns.matches of the entry's path is true; a hidden entry is excluded
\* even when a negation rule matches it.
C29_ExclusionIsDisjunctionOriginal ==
    op = "should_exclude" =>
        excluded = (\/ NameIsHidden(entry)
                    \/ InExcludedDir(entry, exclude_dirs)
                    \/ /\ ignore_patterns.some
                       /\ MatchesPath(ignore_patterns.patterns, entry.path))

\* C29, amended: the hidden test counts only for a name that is valid
\* Unicode and the exclude_dirs test only for a path that is valid Unicode;
\* should_exclude is true exactly when one of the two counts and holds or
\* patterns.matches of the entry's path is true, and so a hidden entry with
\* a valid name is excluded even when a negation rule matches it.
C29_ExclusionIsDisjunction ==
    op = "should_exclude" =>
        excluded = (\/ ToStr(EntryFileName(entry)).some /\ NameIsHidden(entry)
                    \/ ToStr(entry.path).some /\ InExcludedDir(entry, exclude_dirs)
                    \/ /\ ignore_patterns.some
                       /\ MatchesPath(ignore_patterns.patterns, entry.path))

C29_Witness ==
    /\ op = "should_exclude"
    /\ lines = <<LineNegDotKeep>>
    /\ entry.path = PathDotKeep
    /\ ignore_patterns = Some(patterns)
    /\ ~MatchesPath(patterns, entry.path)
    /\ \E k \in 1..Len(patterns) :
          patterns[k].is_neg /\ Stored(k) = <<".", "k", "e", "e", "p">>
    /\ excluded

\* C30: placeholder restoration touches only real globstars. After
\* add_pattern on a directive whose body contains the text `[GLOBSTAR]` and
\* no `**`, the call has succeeded and every stored glob still contains
\* that text: the restoration has not rewritten it into `**`.
C30_GlobstarPlaceholderSurvives ==
    (/\ Len(lines) = 1
     /\ IsDirective(lines[1])
     /\ ContainsStr(DirectiveBody(lines[1]), GlobstarPlaceholder)
     /\ ~ContainsStr(DirectiveBody(lines[1]), <<"*", "*">>)) =>
        /\ result = "ok"
        /\ patterns # <<>>
        /\ \A k \in 1..Len(patterns) : ContainsStr(Stored(k), GlobstarPlaceholder)

====
